---- MODULE Spec2Model ----
(***************************************************************************)
(* Model of sysmonitor.py: the SystemMonitor object (thresholds, interval, *)
(* previous_metrics), one call of log_system_metrics split at the points   *)
(* where control can leave it (acquisition 128-136, evaluation 138-181,    *)
(* logging 183-197, pacing 199-202), and run()'s loop with its             *)
(* KeyboardInterrupt handler.                                              *)
(*                                                                         *)
(* Units: percentages and temperatures are whole numbers; load averages    *)
(* and load_multiplier are in tenths (1.5 is 15); times are in seconds.    *)
(* Python's None is the empty tuple, a present value v is <<v>>.           *)
(***************************************************************************)
EXTENDS Integers, Sequences, FiniteSets, TLC

VARIABLES
    cfg,               \* the thresholds and interval stored by __init__
    previous_metrics,  \* self.previous_metrics
    pc,                \* position of the process
    ticks,             \* number of calls of log_system_metrics begun by run()
    log,               \* records handed to the logging module, oldest first
    clock,             \* time.time() minus the current call's start_time
    cpu_usage, mem_percent, disk_io, net_io, load_avg, temperatures,
    cores,             \* what psutil.cpu_count() answers on this host in this tick
    cpu_count, anomalies, deltas, log_message,
    elapsed, sleep_time,
    failed,            \* metric families whose read raised in the current call
    before             \* counters of the snapshot of the last call that returned

collected == <<cpu_usage, mem_percent, disk_io, net_io, load_avg, temperatures, cores>>
evaluated == <<cpu_count, anomalies, deltas>>
timing    == <<elapsed, sleep_time>>
observed  == <<failed, before>>
vars == <<cfg, previous_metrics, pc, ticks, log, clock, collected, evaluated,
          log_message, timing, observed>>

----------------------------------------------------------------------------
\* Optional values
None == <<>>
Some(v) == <<v>>
Val(o) == o[1]

Max(a, b) == IF a >= b THEN a ELSE b

----------------------------------------------------------------------------
\* Bounds of the model
MaxTicks == 2
MaxElapsed == 3

\* Defaults of the command line
DefaultCpuThreshold == 90
DefaultMemoryThreshold == 90
DefaultLoadMultiplier == 15
DefaultTempThreshold == 80

\* --disk_io_threshold and --net_error_threshold are type=int, --interval is
\* type=float: argparse accepts negative numbers and zero for all three.
DiskIoThresholds == {-2, 0}
NetErrorThresholds == {-2, 0}
Intervals == {-1, 0, 2}

Configs ==
    [cpu_threshold : {DefaultCpuThreshold},
     memory_threshold : {DefaultMemoryThreshold},
     load_multiplier : {DefaultLoadMultiplier},
     disk_io_threshold : DiskIoThresholds,
     net_error_threshold : NetErrorThresholds,
     temp_threshold : {DefaultTempThreshold},
     interval : Intervals]

\* What the operating system can report in one tick.
CounterValues == {0, 1}
CpuValues == {50, 90, 95}
MemValues == {40, 90, 95}
\* os.getloadavg(): raises, or returns the 1, 5 and 15 minute averages
LoadOutcomes ==
    { [ok |-> FALSE, avg |-> <<>>],
      [ok |-> TRUE, avg |-> <<15, 10, 10>>],
      [ok |-> TRUE, avg |-> <<31, 15, 10>>] }
\* psutil.cpu_count(): None, or a number of cores
CpuCounts == {None, Some(0), Some(2)}
\* psutil.sensors_temperatures(): raises, or a dict (in its iteration order)
\* from sensor name to the list of that sensor's current readings
TempOutcomes ==
    { [ok |-> FALSE, temps |-> <<>>],
      [ok |-> TRUE, temps |-> <<>>],
      [ok |-> TRUE, temps |-> << <<"a", <<85>>>>, <<"b", <<70>>>> >>],
      [ok |-> TRUE, temps |-> << <<"a", <<80>>>>, <<"b", <<70, 85>>>> >>],
      [ok |-> TRUE, temps |-> << <<"a", <<81>>>>, <<"b", <<85, 70>>>> >>],
      [ok |-> TRUE, temps |-> << <<"b", <<>>>>, <<"a", <<90, 81>>>> >>] }

Nominal ==
    [cpu |-> 50, mem |-> 40,
     load |-> [ok |-> FALSE, avg |-> <<>>], cores |-> None,
     temps |-> [ok |-> TRUE, temps |-> <<>>]]
Saturated ==
    [cpu |-> 95, mem |-> 95,
     load |-> [ok |-> TRUE, avg |-> <<31, 15, 10>>], cores |-> Some(2),
     temps |-> [ok |-> TRUE, temps |-> << <<"b", <<>>>>, <<"a", <<90, 81>>>> >>]]
\* The gauge readings of a tick: the nominal reading, every reading that differs
\* from it in one metric family, and the reading with every family high.
Gauges ==
    {[Nominal EXCEPT !.cpu = c] : c \in CpuValues}
    \cup {[Nominal EXCEPT !.mem = m] : m \in MemValues}
    \cup {[Nominal EXCEPT !.load = l, !.cores = k] : l \in LoadOutcomes, k \in CpuCounts}
    \cup {[Nominal EXCEPT !.temps = t] : t \in TempOutcomes}
    \cup {Saturated}

Counters == [read_bytes : CounterValues, write_bytes : CounterValues]
NetCounters == [errin : CounterValues, errout : CounterValues]

----------------------------------------------------------------------------
\* The data-source wrappers

get_load_average(outcome) ==
    IF outcome.ok THEN Some(outcome.avg[1]) ELSE None

RECURSIVE MaxOf(_)
MaxOf(entries) ==
    IF Len(entries) = 1 THEN entries[1]
    ELSE Max(entries[1], MaxOf(Tail(entries)))

RECURSIVE CollectTemps(_)
CollectTemps(temps) ==
    IF temps = <<>> THEN <<>>
    ELSE LET sensor == temps[1][1]
             entries == temps[1][2]
         IN  (IF entries # <<>> THEN << <<sensor, MaxOf(entries)>> >> ELSE <<>>)
             \o CollectTemps(Tail(temps))

get_temperatures(outcome) ==
    IF outcome.ok THEN CollectTemps(outcome.temps) ELSE <<>>

----------------------------------------------------------------------------
\* The rules of log_system_metrics, each giving the anomalies it appends

Anomaly(kind, subject, detail) ==
    [kind |-> kind, subject |-> subject, detail |-> detail]

\* fault: the comparison written >= instead of >
CpuRuleInclusive(c, cpu) ==
    IF cpu >= c.cpu_threshold THEN <<Anomaly("HighCPU", "", <<cpu>>)>> ELSE <<>>

CpuRule(c, cpu) ==
    IF cpu > c.cpu_threshold THEN <<Anomaly("HighCPU", "", <<cpu>>)>> ELSE <<>>

\* fault: the comparison written < instead of >
MemoryRuleInverted(c, mem) ==
    IF mem < c.memory_threshold THEN <<Anomaly("HighMemory", "", <<mem>>)>> ELSE <<>>

MemoryRule(c, mem) ==
    IF mem > c.memory_threshold THEN <<Anomaly("HighMemory", "", <<mem>>)>> ELSE <<>>

\* fault: the "or 1" left out, so a reported 0 stays 0
RawCpuCount(cc) ==
    IF cc = None THEN 1 ELSE Val(cc)

\* psutil.cpu_count() or 1
EffectiveCpuCount(cc) ==
    IF cc = None \/ Val(cc) = 0 THEN 1 ELSE Val(cc)

LoadRule(c, load, cc) ==
    IF load # None
    THEN IF Val(load) > EffectiveCpuCount(cc) * c.load_multiplier
         THEN <<Anomaly("HighLoad", "", <<Val(load), EffectiveCpuCount(cc)>>)>>
         ELSE <<>>
    ELSE <<>>

\* fault: the loop left at the first offending sensor
TemperatureRuleFirstOnly(c, temps) ==
    LET hot == {i \in DOMAIN temps : temps[i][2] > c.temp_threshold}
    IN  IF hot = {} THEN <<>>
        ELSE LET i == CHOOSE k \in hot : \A j \in hot : k <= j
             IN  <<Anomaly("HighTemperature", temps[i][1], <<temps[i][2]>>)>>

RECURSIVE TemperatureRule(_, _)
TemperatureRule(c, temps) ==
    IF temps = <<>> THEN <<>>
    ELSE (IF temps[1][2] > c.temp_threshold
          THEN <<Anomaly("HighTemperature", temps[1][1], <<temps[1][2]>>)>>
          ELSE <<>>)
         \o TemperatureRule(c, Tail(temps))

\* fault: the comparison written >= instead of >
ExceedsOrEqual(delta, threshold) == delta >= threshold

Exceeds(delta, threshold) == delta > threshold

\* fault: an absent baseline read as 0 instead of skipping the rule
DiskDeltasFromZero(prev, disk) ==
    IF prev.disk_read_bytes # None
    THEN [read |-> Some(disk.read_bytes - Val(prev.disk_read_bytes)),
          write |-> Some(disk.write_bytes - Val(prev.disk_write_bytes))]
    ELSE [read |-> Some(disk.read_bytes), write |-> Some(disk.write_bytes)]

DiskDeltas(prev, disk) ==
    IF prev.disk_read_bytes # None
    THEN [read |-> Some(disk.read_bytes - Val(prev.disk_read_bytes)),
          write |-> Some(disk.write_bytes - Val(prev.disk_write_bytes))]
    ELSE [read |-> None, write |-> None]

NetDeltas(prev, net) ==
    IF prev.net_errin # None
    THEN [errin |-> Some(net.errin - Val(prev.net_errin)),
          errout |-> Some(net.errout - Val(prev.net_errout))]
    ELSE [errin |-> None, errout |-> None]

DeltaRule(kind, delta, threshold) ==
    IF delta # None /\ Exceeds(Val(delta), threshold)
    THEN <<Anomaly(kind, "", <<Val(delta)>>)>>
    ELSE <<>>

DiskRule(c, prev, disk) ==
    DeltaRule("HighDiskRead", DiskDeltas(prev, disk).read, c.disk_io_threshold)
    \o DeltaRule("HighDiskWrite", DiskDeltas(prev, disk).write, c.disk_io_threshold)

NetRule(c, prev, net) ==
    DeltaRule("HighNetErrIn", NetDeltas(prev, net).errin, c.net_error_threshold)
    \o DeltaRule("HighNetErrOut", NetDeltas(prev, net).errout, c.net_error_threshold)

\* fault: the disk and network rules moved in front of the other rules
RulesDeltasFirst(c, prev, cpu, mem, load, cc, temps, disk, net) ==
    DiskRule(c, prev, disk)
    \o NetRule(c, prev, net)
    \o CpuRule(c, cpu)
    \o MemoryRule(c, mem)
    \o LoadRule(c, load, cc)
    \o TemperatureRule(c, temps)

\* the anomalies of one call, in the order lines 140-178 append them
Rules(c, prev, cpu, mem, load, cc, temps, disk, net) ==
    CpuRule(c, cpu)
    \o MemoryRule(c, mem)
    \o LoadRule(c, load, cc)
    \o TemperatureRule(c, temps)
    \o DiskRule(c, prev, disk)
    \o NetRule(c, prev, net)

\* fault: the baseline kept at the highest value seen instead of overwritten
UpdateDiskKeepMax(prev, disk) ==
    IF prev.disk_read_bytes = None
    THEN [prev EXCEPT !.disk_read_bytes = Some(disk.read_bytes),
                      !.disk_write_bytes = Some(disk.write_bytes)]
    ELSE [prev EXCEPT !.disk_read_bytes = Some(Max(disk.read_bytes, Val(@))),
                      !.disk_write_bytes = Some(Max(disk.write_bytes, Val(@)))]

UpdateDisk(prev, disk) ==
    [prev EXCEPT !.disk_read_bytes = Some(disk.read_bytes),
                 !.disk_write_bytes = Some(disk.write_bytes)]

\* fault: the network baseline updated only once it exists
UpdateNetWhenPresent(prev, net) ==
    IF prev.net_errin = None THEN prev
    ELSE [prev EXCEPT !.net_errin = Some(net.errin),
                      !.net_errout = Some(net.errout)]

\* fault: the network baseline set by the first call and never advanced
UpdateNetOnce(prev, net) ==
    IF prev.net_errin # None THEN prev
    ELSE [prev EXCEPT !.net_errin = Some(net.errin),
                      !.net_errout = Some(net.errout)]

UpdateNet(prev, net) ==
    [prev EXCEPT !.net_errin = Some(net.errin),
                 !.net_errout = Some(net.errout)]

\* fault: a single anomaly not counted as a warning
SeverityMany(anoms) == IF Len(anoms) > 1 THEN "WARNING" ELSE "INFO"

Severity(anoms) == IF anoms # <<>> THEN "WARNING" ELSE "INFO"

ComposeMessage(anoms) ==
    [cpu |-> cpu_usage, mem |-> mem_percent, disk |-> disk_io, net |-> net_io,
     load |-> load_avg, temps |-> temperatures,
     appended |-> IF anoms # <<>> THEN anoms ELSE None]

\* fault: the max(0, ...) left out
SleepTimeUnclamped(interval, e) == interval - e

SleepTime(interval, e) == Max(0, interval - e)

----------------------------------------------------------------------------
Init ==
    /\ cfg \in Configs
    /\ previous_metrics = [disk_read_bytes |-> None, disk_write_bytes |-> None,
                           net_errin |-> None, net_errout |-> None]
    /\ pc = "constructed"
    /\ ticks = 0
    /\ log = <<>>
    /\ clock = 0
    /\ cpu_usage = None /\ mem_percent = None /\ disk_io = None /\ net_io = None
    /\ load_avg = None /\ temperatures = <<>> /\ cores = None
    /\ cpu_count = None /\ anomalies = <<>> /\ deltas = None
    /\ log_message = None
    /\ elapsed = None /\ sleep_time = None
    /\ failed = {} /\ before = None

\* run(), line 206: the startup line, then the loop is entered
RunStart ==
    /\ pc = "constructed"
    /\ log' = Append(log, [kind |-> "startup", level |-> "INFO"])
    /\ pc' = "loop"
    /\ UNCHANGED <<cfg, previous_metrics, ticks, clock, collected, evaluated,
                   log_message, timing, observed>>

\* fault: the next call begun before the previous call has slept
AtLoopTopOrLogged == pc \in {"loop", "logged"}

\* run(), lines 208-209: the loop calls log_system_metrics again only when the
\* previous call has returned
AtLoopTop == pc = "loop"

\* the families whose failure the wrappers catch (lines 102-104, 122-123)
CaughtFailures(g) ==
    (IF g.load.ok THEN {} ELSE {"load"}) \cup (IF g.temps.ok THEN {} ELSE {"temperatures"})

\* log_system_metrics, lines 128-136, in a run of at most limit calls
AcquireWithin(limit) ==
    /\ AtLoopTop
    /\ ticks < limit
    /\ \E g \in Gauges, d \in Counters, n \in NetCounters :
          /\ failed' = CaughtFailures(g)
          /\ cpu_usage' = Some(g.cpu)
          /\ mem_percent' = Some(g.mem)
          /\ disk_io' = Some(d)
          /\ net_io' = Some(n)
          /\ load_avg' = get_load_average(g.load)
          /\ temperatures' = get_temperatures(g.temps)
          /\ cores' = g.cores
    /\ ticks' = ticks + 1
    /\ clock' = 0
    /\ cpu_count' = None /\ anomalies' = <<>> /\ deltas' = None
    /\ log_message' = None
    /\ elapsed' = None /\ sleep_time' = None
    /\ pc' = "acquired"
    /\ UNCHANGED <<cfg, previous_metrics, log, before>>

Acquire == AcquireWithin(MaxTicks)

\* log_system_metrics, lines 138-181
Evaluate ==
    /\ pc = "acquired"
    /\ cpu_count' = IF load_avg # None THEN Some(EffectiveCpuCount(cores)) ELSE None
    /\ anomalies' = Rules(cfg, previous_metrics, Val(cpu_usage), Val(mem_percent),
                          load_avg, cores, temperatures, Val(disk_io), Val(net_io))
    /\ deltas' = Some([disk |-> DiskDeltas(previous_metrics, Val(disk_io)),
                       net |-> NetDeltas(previous_metrics, Val(net_io))])
    /\ previous_metrics' = UpdateNet(UpdateDisk(previous_metrics, Val(disk_io)),
                                     Val(net_io))
    /\ pc' = "evaluated"
    /\ UNCHANGED <<cfg, ticks, log, clock, collected, log_message, timing, observed>>

\* log_system_metrics, lines 183-197
Log ==
    /\ pc = "evaluated"
    /\ log_message' = Some(ComposeMessage(anomalies))
    /\ log' = Append(log, [kind |-> "tick", level |-> Severity(anomalies)])
    /\ pc' = "logged"
    /\ UNCHANGED <<cfg, previous_metrics, ticks, clock, collected, evaluated, timing,
                   observed>>

\* log_system_metrics, lines 199-202, and the return to the loop
Sleep ==
    /\ pc = "logged"
    /\ \E e \in 1..MaxElapsed :
          /\ elapsed' = Some(e)
          /\ sleep_time' = Some(SleepTime(cfg.interval, e))
          /\ clock' = e + SleepTime(cfg.interval, e)
    /\ cpu_usage' = None /\ mem_percent' = None /\ disk_io' = None /\ net_io' = None
    /\ load_avg' = None /\ temperatures' = <<>> /\ cores' = None
    /\ cpu_count' = None /\ anomalies' = <<>> /\ deltas' = None
    /\ log_message' = None
    /\ failed' = {}
    /\ before' = Some([disk |-> Val(disk_io), net |-> Val(net_io)])
    /\ pc' = "loop"
    /\ UNCHANGED <<cfg, previous_metrics, ticks, log>>

\* log_system_metrics, lines 131-134: psutil raises while a metric family is
\* read; nothing in log_system_metrics or run() catches it (run() catches
\* KeyboardInterrupt only), so it leaves run()
UncaughtFamilies == {"cpu", "memory", "disk", "network"}

AcquireFailsWithin(limit) ==
    /\ AtLoopTop
    /\ ticks < limit
    /\ ticks' = ticks + 1
    /\ clock' = 0
    /\ elapsed' = None /\ sleep_time' = None
    /\ \E f \in UncaughtFamilies : failed' = {f}
    /\ pc' = "crashed"
    /\ UNCHANGED <<cfg, previous_metrics, log, collected, evaluated, log_message,
                   before>>

AcquireFails == AcquireFailsWithin(MaxTicks)

\* fault: the handler left empty, no shutdown line
OnKeyboardInterruptPass(l) == l

\* run(), line 211
OnKeyboardInterrupt(l) == Append(l, [kind |-> "shutdown", level |-> "INFO"])

\* run(), lines 210-211: KeyboardInterrupt is raised wherever the loop is, the
\* call in progress is abandoned and the shutdown line is logged
Interrupt ==
    /\ pc \in {"loop", "acquired", "evaluated", "logged"}
    /\ log' = OnKeyboardInterrupt(log)
    /\ cpu_usage' = None /\ mem_percent' = None /\ disk_io' = None /\ net_io' = None
    /\ load_avg' = None /\ temperatures' = <<>> /\ cores' = None
    /\ cpu_count' = None /\ anomalies' = <<>> /\ deltas' = None
    /\ log_message' = None
    /\ elapsed' = None /\ sleep_time' = None
    /\ failed' = {}
    /\ pc' = "stopped"
    /\ UNCHANGED <<cfg, previous_metrics, ticks, clock, before>>

Next == RunStart \/ Acquire \/ AcquireFails \/ Evaluate \/ Log \/ Sleep \/ Interrupt

Spec == Init /\ [][Next]_vars

\* The monitor constructed with the defaults of __init__ (lines 39-45)
DefaultDiskIoThreshold == 104857600
DefaultNetErrorThreshold == 10
DefaultInterval == 10

DefaultConfig ==
    [cpu_threshold |-> DefaultCpuThreshold,
     memory_threshold |-> DefaultMemoryThreshold,
     load_multiplier |-> DefaultLoadMultiplier,
     disk_io_threshold |-> DefaultDiskIoThreshold,
     net_error_threshold |-> DefaultNetErrorThreshold,
     temp_threshold |-> DefaultTempThreshold,
     interval |-> DefaultInterval]

InitDefault ==
    /\ cfg = DefaultConfig
    /\ previous_metrics = [disk_read_bytes |-> None, disk_write_bytes |-> None,
                           net_errin |-> None, net_errout |-> None]
    /\ pc = "constructed"
    /\ ticks = 0
    /\ log = <<>>
    /\ clock = 0
    /\ cpu_usage = None /\ mem_percent = None /\ disk_io = None /\ net_io = None
    /\ load_avg = None /\ temperatures = <<>> /\ cores = None
    /\ cpu_count = None /\ anomalies = <<>> /\ deltas = None
    /\ log_message = None
    /\ elapsed = None /\ sleep_time = None
    /\ failed = {} /\ before = None

SpecDefault == InitDefault /\ [][Next]_vars

\* Runs of one call more, with a positive interval, for properties that compare
\* a call with the two calls before it
InitLong == Init /\ cfg.interval > 0

NextLong ==
    \/ RunStart
    \/ AcquireWithin(MaxTicks + 1)
    \/ AcquireFailsWithin(MaxTicks + 1)
    \/ Evaluate
    \/ Log
    \/ Sleep
    \/ Interrupt

SpecLong == InitLong /\ [][NextLong]_vars

----------------------------------------------------------------------------
\* Vocabulary of the properties

DeltaKinds == {"HighDiskRead", "HighDiskWrite", "HighNetErrIn", "HighNetErrOut"}

CountIn(anoms, kind) == Cardinality({i \in DOMAIN anoms : anoms[i].kind = kind})
Count(kind) == CountIn(anomalies, kind)
Has(kind) == Count(kind) > 0

TickRecords == Cardinality({i \in DOMAIN log : log[i].kind = "tick"})

Evaluated == pc \in {"evaluated", "logged"}

AllPresent ==
    /\ previous_metrics.disk_read_bytes # None
    /\ previous_metrics.disk_write_bytes # None
    /\ previous_metrics.net_errin # None
    /\ previous_metrics.net_errout # None

\* C1: in the first tick of a freshly constructed monitor no High Disk Read,
\* High Disk Write, High Incoming or High Outgoing Network Errors anomaly is
\* produced, whatever the counters and the thresholds are.
C1_FirstTickNoDeltaAnomaly ==
    (ticks = 1 /\ Evaluated) =>
        /\ \A k \in DeltaKinds : Count(k) = 0
        /\ pc = "logged" /\ Val(log_message).appended # None =>
              \A k \in DeltaKinds : CountIn(Val(log_message).appended, k) = 0

\* The first tick has been evaluated with every counter above thresholds that
\* are negative.
C1_Witness ==
    /\ ticks = 1 /\ pc = "evaluated"
    /\ cfg.disk_io_threshold < 0 /\ cfg.net_error_threshold < 0
    /\ Val(disk_io) = [read_bytes |-> 1, write_bytes |-> 1]
    /\ Val(net_io) = [errin |-> 1, errout |-> 1]
    /\ deltas = Some([disk |-> [read |-> None, write |-> None],
                      net |-> [errin |-> None, errout |-> None]])

\* C2: once a tick has been evaluated, each of the four baseline fields is the
\* counter of that tick's snapshot, whether or not a rule fired, and after the
\* first tick's record no baseline field is absent again.
C2_BaselineIsSnapshot ==
    /\ Evaluated =>
          previous_metrics =
              [disk_read_bytes |-> Some(Val(disk_io).read_bytes),
               disk_write_bytes |-> Some(Val(disk_io).write_bytes),
               net_errin |-> Some(Val(net_io).errin),
               net_errout |-> Some(Val(net_io).errout)]
    /\ TickRecords >= 1 => AllPresent

\* A second tick in which no rule fired and counters went down: the baseline
\* holds the lower values.
C2_Witness ==
    /\ ticks = 2 /\ pc = "evaluated" /\ anomalies = <<>>
    /\ Val(deltas).disk.read = Some(-1) /\ Val(deltas).net.errout = Some(-1)
    /\ previous_metrics.disk_read_bytes = Some(0)
    /\ previous_metrics.net_errout = Some(0)

\* C3: in every tick after the first, each of the four delta anomalies is
\* produced exactly when (current counter - baseline of the previous tick) is
\* strictly greater than its threshold, each decided on its own counter.
C3_DeltaRules ==
    [][(pc = "acquired" /\ pc' = "evaluated" /\ ticks > 1) =>
        /\ CountIn(anomalies', "HighDiskRead") =
              IF Val(disk_io).read_bytes - Val(previous_metrics.disk_read_bytes)
                    > cfg.disk_io_threshold THEN 1 ELSE 0
        /\ CountIn(anomalies', "HighDiskWrite") =
              IF Val(disk_io).write_bytes - Val(previous_metrics.disk_write_bytes)
                    > cfg.disk_io_threshold THEN 1 ELSE 0
        /\ CountIn(anomalies', "HighNetErrIn") =
              IF Val(net_io).errin - Val(previous_metrics.net_errin)
                    > cfg.net_error_threshold THEN 1 ELSE 0
        /\ CountIn(anomalies', "HighNetErrOut") =
              IF Val(net_io).errout - Val(previous_metrics.net_errout)
                    > cfg.net_error_threshold THEN 1 ELSE 0]_vars

\* A second tick whose disk read delta equals the threshold (no anomaly) while
\* the disk write delta is above it (anomaly) and the network deltas differ too.
C3_Witness ==
    /\ ticks = 2 /\ pc = "evaluated"
    /\ Val(deltas).disk.read = Some(cfg.disk_io_threshold)
    /\ ~Has("HighDiskRead") /\ Has("HighDiskWrite")
    /\ Val(deltas).net.errin = Some(cfg.net_error_threshold)
    /\ ~Has("HighNetErrIn") /\ Has("HighNetErrOut")

\* C4: a counter whose current value is below its baseline raises no anomaly
\* for that counter, under every configuration, and the baseline takes the
\* lower value.
C4_NegativeDeltaNeverFlagged ==
    (pc = "evaluated" /\ ticks > 1) =>
        /\ Val(Val(deltas).disk.read) < 0 =>
              ~Has("HighDiskRead")
              /\ previous_metrics.disk_read_bytes = Some(Val(disk_io).read_bytes)
        /\ Val(Val(deltas).disk.write) < 0 =>
              ~Has("HighDiskWrite")
              /\ previous_metrics.disk_write_bytes = Some(Val(disk_io).write_bytes)
        /\ Val(Val(deltas).net.errin) < 0 =>
              ~Has("HighNetErrIn")
              /\ previous_metrics.net_errin = Some(Val(net_io).errin)
        /\ Val(Val(deltas).net.errout) < 0 =>
              ~Has("HighNetErrOut")
              /\ previous_metrics.net_errout = Some(Val(net_io).errout)

\* C5: a tick's result holds exactly one HighCPU anomaly when cpu_percent is
\* above cpu_threshold and none otherwise, and exactly one HighMemory anomaly
\* when memory_percent is above memory_threshold and none otherwise; nothing
\* else enters either decision.
C5_CpuMemoryRules ==
    Evaluated =>
        /\ Count("HighCPU") = IF Val(cpu_usage) > cfg.cpu_threshold THEN 1 ELSE 0
        /\ Count("HighMemory") = IF Val(mem_percent) > cfg.memory_threshold THEN 1 ELSE 0

\* A second tick with the CPU above its threshold and memory below, in which a
\* disk anomaly is reported as well.
C5_Witness ==
    /\ ticks = 2 /\ pc = "evaluated"
    /\ Val(cpu_usage) > cfg.cpu_threshold /\ Val(mem_percent) < cfg.memory_threshold
    /\ Count("HighCPU") = 1 /\ Count("HighMemory") = 0
    /\ Has("HighDiskRead")

\* C6: with the load average present, HighLoad is produced exactly when
\* load_average_1m > max(1, cpu_count) * load_multiplier, a core count of 0 or
\* unknown counting as 1; with the load average absent there is no HighLoad and
\* the tick is evaluated and logged as usual.
C6_LoadRule ==
    Evaluated =>
        IF load_avg # None
        THEN Count("HighLoad") =
                IF Val(load_avg) >
                      (IF cores = None THEN 1 ELSE Max(1, Val(cores))) * cfg.load_multiplier
                THEN 1 ELSE 0
        ELSE Count("HighLoad") = 0

\* The host reports 0 cores and a load average equal to 1 * load_multiplier:
\* the tick is logged without a HighLoad anomaly.
C6_Witness ==
    /\ pc = "logged"
    /\ cores = Some(0) /\ load_avg = Some(cfg.load_multiplier)
    /\ Count("HighLoad") = 0

\* C7: the HighTemperature anomalies of a tick are one per sensor whose reading
\* is strictly above temp_threshold and none for the other sensors, for every
\* temperature mapping, the empty one included.
C7_TemperatureRule ==
    Evaluated =>
        /\ Count("HighTemperature") =
              Cardinality({i \in DOMAIN temperatures :
                              temperatures[i][2] > cfg.temp_threshold})
        /\ \A i \in DOMAIN temperatures :
              Cardinality({j \in DOMAIN anomalies :
                              /\ anomalies[j].kind = "HighTemperature"
                              /\ anomalies[j].subject = temperatures[i][1]})
                 = IF temperatures[i][2] > cfg.temp_threshold THEN 1 ELSE 0

\* Two sensors both above the threshold: two anomalies.
C7_Witness ==
    /\ pc = "evaluated"
    /\ Len(temperatures) = 2
    /\ \A i \in DOMAIN temperatures : temperatures[i][2] > cfg.temp_threshold
    /\ Count("HighTemperature") = 2

\* C8: each completed tick hands one record to the logging sink; the record is
\* a WARNING exactly when the tick's anomaly sequence is not empty, and an INFO
\* record carries the descriptive line alone.
C8_OneRecordPerTick ==
    /\ pc \in {"acquired", "evaluated"} => TickRecords = ticks - 1
    /\ pc \in {"logged", "loop"} => TickRecords = ticks
    /\ pc = "logged" =>
          /\ log[Len(log)].kind = "tick"
          /\ log[Len(log)].level = "WARNING" <=> anomalies # <<>>
          /\ log[Len(log)].level = "INFO" <=> anomalies = <<>>
          /\ log[Len(log)].level = "INFO" => Val(log_message).appended = None
          /\ log[Len(log)].level = "WARNING" => Val(log_message).appended = anomalies

\* A nominal first tick logged at INFO followed by a second tick with a single
\* anomaly logged at WARNING.
C8_Witness ==
    /\ pc = "logged" /\ ticks = 2
    /\ log[2] = [kind |-> "tick", level |-> "INFO"]
    /\ log[3] = [kind |-> "tick", level |-> "WARNING"]
    /\ Len(anomalies) = 1

\* C9: the sleep of a tick is max(0, interval - elapsed): never negative, 0 when
\* elapsed >= interval, and otherwise such that the next tick starts interval
\* seconds after this one started.
C9_SleepCompensation ==
    (pc = "loop" /\ elapsed # None) =>
        /\ Val(sleep_time) >= 0
        /\ Val(sleep_time) =
              IF cfg.interval - Val(elapsed) > 0 THEN cfg.interval - Val(elapsed) ELSE 0
        /\ Val(elapsed) >= cfg.interval => Val(sleep_time) = 0 /\ clock = Val(elapsed)
        /\ Val(elapsed) < cfg.interval => clock = cfg.interval

\* One tick that took 1 second of an interval of 2 (sleep 1) is over.
C9_Witness ==
    /\ pc = "loop" /\ cfg.interval = 2
    /\ elapsed = Some(1) /\ sleep_time = Some(1) /\ clock = 2

\* C10: with interval <= 0 the monitoring loop never begins: no tick is
\* executed and no tick record is logged.
C10_NonPositiveIntervalRejected ==
    cfg.interval <= 0 => (ticks = 0 /\ TickRecords = 0)

\* C11: a metric family whose acquisition fails in a tick contributes an absent
\* value and the tick goes on: the other rules are evaluated, the record is
\* logged and the loop continues.
C11_FailureDoesNotAbortTick ==
    failed # {} => pc \in {"acquired", "evaluated", "logged"}

LogShape ==
    /\ ticks >= 1 => log # <<>>
    /\ log # <<>> => log[1].kind = "startup"
    /\ \A i \in DOMAIN log :
          /\ log[i].kind = "startup" => i = 1
          /\ log[i].kind = "shutdown" => i = Len(log) /\ pc = "stopped"
    /\ pc = "stopped" => log # <<>> /\ log[Len(log)].kind = "shutdown"

\* C12: the startup line precedes the first tick's record; on the interrupt
\* run() leaves the loop, logs the shutdown line as the last record and returns
\* normally; nothing happens once the shutdown line is logged.
C12_Lifecycle ==
    [][LogShape /\ LogShape' /\ pc # "stopped"]_vars

\* Two ticks were logged, then the interrupt came and the shutdown line closes
\* the log.
C12_Witness ==
    /\ pc = "stopped" /\ ticks = 2 /\ TickRecords = 2
    /\ Len(log) = 4 /\ log[4].kind = "shutdown"

\* C13: no anomaly ends the monitor; the loop has ended only when the external
\* cancellation was handled.
C13_OnlyCancellationEndsLoop ==
    /\ pc \notin {"constructed", "loop", "acquired", "evaluated", "logged"} =>
          log # <<>> /\ log[Len(log)].kind = "shutdown"
    /\ (pc = "loop" /\ ticks >= 1 /\ ticks < MaxTicks) => ENABLED Acquire

Quiet ==
    /\ Val(cpu_usage) <= cfg.cpu_threshold
    /\ Val(mem_percent) <= cfg.memory_threshold
    /\ load_avg # None =>
          Val(load_avg) <= (IF cores = None THEN 1 ELSE Max(1, Val(cores)))
                              * cfg.load_multiplier
    /\ \A i \in DOMAIN temperatures : temperatures[i][2] <= cfg.temp_threshold

NoDelta == [disk |-> [read |-> None, write |-> None],
            net |-> [errin |-> None, errout |-> None]]
ZeroDelta == [disk |-> [read |-> Some(0), write |-> Some(0)],
              net |-> [errin |-> Some(0), errout |-> Some(0)]]

\* C14: a tick whose snapshot is at or below every threshold and whose four
\* counters are those of the snapshot before it produces no anomaly and an
\* INFO record, at every tick.
C14_QuietTicksStayQuiet ==
    (Evaluated /\ Quiet /\ Val(deltas) \in {NoDelta, ZeroDelta}) =>
        /\ anomalies = <<>>
        /\ pc = "logged" => log[Len(log)] = [kind |-> "tick", level |-> "INFO"]

ZeroCounters == [disk |-> [read_bytes |-> 0, write_bytes |-> 0],
                 net |-> [errin |-> 0, errout |-> 0]]

ScenarioSnapshot(cpu) ==
    /\ cpu_usage = Some(cpu) /\ mem_percent = Some(40)
    /\ disk_io = Some(ZeroCounters.disk) /\ net_io = Some(ZeroCounters.net)
    /\ load_avg = None /\ temperatures = <<>>

\* C15: with the default configuration, a first tick fed {cpu 50, mem 40,
\* counters 0, no load, no temperatures} is logged at INFO without anomalies and
\* leaves the four baseline fields at 0; a second tick fed the same with cpu 95
\* is logged at WARNING with the single anomaly HighCPU 95.
C15_DefaultScenario ==
    /\ (pc = "logged" /\ ticks = 1 /\ ScenarioSnapshot(50)) =>
          /\ anomalies = <<>>
          /\ log[Len(log)] = [kind |-> "tick", level |-> "INFO"]
          /\ previous_metrics = [disk_read_bytes |-> Some(0), disk_write_bytes |-> Some(0),
                                 net_errin |-> Some(0), net_errout |-> Some(0)]
    /\ (pc = "logged" /\ ticks = 2 /\ ScenarioSnapshot(95) /\ before = Some(ZeroCounters)) =>
          /\ anomalies = <<[kind |-> "HighCPU", subject |-> "", detail |-> <<95>>]>>
          /\ log[Len(log)] = [kind |-> "tick", level |-> "WARNING"]
          /\ Val(log_message).appended = anomalies

\* The second tick of the scenario has been logged after a first tick logged
\* at INFO with zero counters.
C15_Witness ==
    /\ cfg = DefaultConfig
    /\ pc = "logged" /\ ticks = 2 /\ ScenarioSnapshot(95)
    /\ before = Some(ZeroCounters)
    /\ log[2] = [kind |-> "tick", level |-> "INFO"]

Rank(kind) ==
    CASE kind = "HighCPU" -> 1
      [] kind = "HighMemory" -> 2
      [] kind = "HighLoad" -> 3
      [] kind = "HighTemperature" -> 4
      [] kind = "HighDiskRead" -> 5
      [] kind = "HighDiskWrite" -> 6
      [] kind = "HighNetErrIn" -> 7
      [] kind = "HighNetErrOut" -> 8

\* C16: in a tick's anomaly sequence, of two anomalies of different kinds the
\* one whose kind is earlier in CPU, Memory, Load, Temperature, DiskRead,
\* DiskWrite, NetErrIn, NetErrOut comes first; the logged list keeps the order.
C16_AnomalyOrder ==
    Evaluated =>
        /\ \A i, j \in DOMAIN anomalies :
              i < j => Rank(anomalies[i].kind) <= Rank(anomalies[j].kind)
        /\ (pc = "logged" /\ anomalies # <<>>) => Val(log_message).appended = anomalies

\* A tick in which all eight kinds of anomaly are reported.
C16_Witness ==
    /\ pc = "logged" /\ Len(anomalies) = 8
    /\ \A r \in 1..8 : Rank(anomalies[r].kind) = r

\* C17: an interrupt never leaves a tick partially executed: when the loop has
\* stopped, every tick that began has updated the baseline and logged its
\* record.
C17_NoPartialTick ==
    pc = "stopped" => (TickRecords = ticks /\ (ticks >= 1 => AllPresent))

\* C18: ticks are sequential and each goes acquire, evaluate, log, sleep: a
\* tick's record is in the log before its sleep, the next acquisition starts
\* only after that sleep, and the baseline is written by the evaluation of the
\* one tick in progress.
C18_SequentialTicks ==
    [][/\ pc' = "acquired" =>
             /\ pc = "loop" /\ ticks' = ticks + 1
             /\ TickRecords = ticks
             /\ ticks >= 1 => sleep_time # None
       /\ pc' = "evaluated" => pc = "acquired" /\ ticks' = ticks
       /\ pc' = "logged" =>
             /\ pc = "evaluated" /\ ticks' = ticks
             /\ log' = Append(log, log'[Len(log')]) /\ log'[Len(log')].kind = "tick"
       /\ (pc' = "loop" /\ pc # "constructed") =>
             /\ pc = "logged" /\ ticks' = ticks /\ log' = log
             /\ sleep_time' # None
       /\ previous_metrics' # previous_metrics =>
             pc = "acquired" /\ pc' = "evaluated"]_vars

\* The second tick has acquired its snapshot after the first tick's record and
\* sleep.
C18_Witness ==
    /\ pc = "acquired" /\ ticks = 2 /\ TickRecords = 1
    /\ before # None

AllAbsent ==
    /\ previous_metrics.disk_read_bytes = None
    /\ previous_metrics.disk_write_bytes = None
    /\ previous_metrics.net_errin = None
    /\ previous_metrics.net_errout = None

\* C19: between ticks the four baseline fields are all absent (before the first
\* tick only) or all present (ever after), so whenever the presence check on
\* disk_read_bytes or net_errin passes, the partner field is present too.
C19_BaselineAllOrNone ==
    /\ pc \in {"constructed", "loop"} =>
          IF ticks = 0 THEN AllAbsent ELSE AllPresent
    /\ pc = "acquired" =>
          /\ AllAbsent \/ AllPresent
          /\ ticks = 1 <=> AllAbsent
    /\ Evaluated =>
          /\ Val(deltas).disk.read = None <=> Val(deltas).disk.write = None
          /\ Val(deltas).net.errin = None <=> Val(deltas).net.errout = None
          /\ Val(deltas).disk.read = None <=> ticks = 1
          /\ Val(deltas).net.errin = None <=> ticks = 1

\* The second tick is about to be evaluated against a baseline with all four
\* fields present.
C19_Witness ==
    /\ pc = "acquired" /\ ticks = 2 /\ AllPresent

BaselineOf(counters) ==
    [disk_read_bytes |-> Some(counters.disk.read_bytes),
     disk_write_bytes |-> Some(counters.disk.write_bytes),
     net_errin |-> Some(counters.net.errin),
     net_errout |-> Some(counters.net.errout)]

\* C20: from the second tick on, a tick's anomaly sequence and severity are
\* determined by the configuration, the tick's snapshot and the counters of the
\* snapshot of the tick before it, whatever came earlier.
C20_ResultFromLastTwoSnapshots ==
    (Evaluated /\ ticks >= 2) =>
        /\ anomalies =
              Rules(cfg, BaselineOf(Val(before)), Val(cpu_usage), Val(mem_percent),
                    load_avg, cores, temperatures, Val(disk_io), Val(net_io))
        /\ pc = "logged" =>
              log[Len(log)].level =
                 IF Rules(cfg, BaselineOf(Val(before)), Val(cpu_usage), Val(mem_percent),
                          load_avg, cores, temperatures, Val(disk_io), Val(net_io)) = <<>>
                 THEN "INFO" ELSE "WARNING"

\* A third tick reports a network anomaly after a first tick that was logged
\* as a warning and a second tick whose counters differ from the third's.
C20_Witness ==
    /\ pc = "logged" /\ ticks = 3
    /\ log[2].level = "WARNING"
    /\ Has("HighNetErrIn")
    /\ Val(before).net.errin # Val(net_io).errin

====
